---- MODULE Spec2Model ----
(***************************************************************************)
(* History-aware batch assembly of saridormi/commit_message_generation.    *)
(*                                                                         *)
(* Three collators are modelled, each one __call__ of a dataclass:         *)
(*   "WHistoryGen"    src/dataset_utils/data_collator_w_history.py         *)
(*                    DataCollatorWithHistory  (history, no bos/eos wrap,  *)
(*                    emits the left-padded generation prompt)             *)
(*   "WithHistory"    src/dataset_utils/data_collators.py                  *)
(*                    DataCollatorWithHistory  (history, bos/eos wrap)     *)
(*   "WithoutHistory" src/dataset_utils/data_collators.py                  *)
(*                    DataCollatorWithoutHistory (no history, bos/eos wrap)*)
(* The two collators of data_collators.py are modelled with testing=False  *)
(* (the default); the testing=True branch returns random tensors and is    *)
(* not modelled.                                                           *)
(*                                                                         *)
(* A torch tensor of rank 1 is a sequence of integers, a stacked tensor a  *)
(* sequence of rows.  Python lists are sequences; list index i (0-based)   *)
(* is sequence index i+1.                                                  *)
(***************************************************************************)
EXTENDS Integers, Sequences, FiniteSets, TLC

\* ----------------------------------------------------------------- bounds
\* Size of a batch: one unit per example, per history turn and per token.
MaxSize == 6
\* Largest max_len a collator is constructed with (the smallest is -1).
MaxMaxLen == 6

\* ------------------------------------------------- tokenizer (external)
\* trg_tokenizer.bos_token_id
bos_token_id == 1
\* trg_tokenizer.eos_token_id
eos_token_id == 90
\* trg_tokenizer.pad_token_id
pad_token_id == 0
\* src_tokenizer.pad_token_id
src_pad_token_id == 91
\* the label value the loss ignores
IgnoreIndex == -100
\* trg_tokenizer(r' \n ').input_ids : the separator between two turns
Separator == <<100>>

\* ------------------------------------------------------ python helpers
Min(a, b) == IF a <= b THEN a ELSE b
Max(a, b) == IF a >= b THEN a ELSE b

\* max(...) over a non-empty collection of lengths
MaxOf(S) == CHOOSE m \in S : \A x \in S : x <= m

\* s[:n], with Python's meaning of a negative n
PySliceTo(s, n) ==
    IF n >= 0 THEN SubSeq(s, 1, Min(n, Len(s)))
              ELSE SubSeq(s, 1, Max(Len(s) + n, 0))

\* Variant of Reversed: the history is walked oldest turn first.
ReversedIdentity(s) == s

\* s[::-1]
Reversed(s) == [j \in 1..Len(s) |-> s[Len(s) + 1 - j]]

\* list.insert(i, x), i a 0-based index
ListInsert(list, i, x) ==
    LET k == Min(i, Len(list))
    IN  SubSeq(list, 1, k) \o <<x>> \o SubSeq(list, k + 1, Len(list))

\* [ex for sublist in lists for ex in sublist]
RECURSIVE Flatten(_)
Flatten(lists) ==
    IF lists = <<>> THEN <<>> ELSE Head(lists) \o Flatten(Tail(lists))

\* a tensor of n copies of v (torch.ones_like, [-100 for _ in ...])
Fill(n, v) == [j \in 1..n |-> v]

\* torch.nn.functional.pad(t, pad=[0, width - t.numel()], value=v)
PadRight(t, width, v) == t \o Fill(width - Len(t), v)

\* torch.nn.functional.pad(t, pad=[width - t.numel(), 0], value=v)
PadLeft(t, width, v) == Fill(width - Len(t), v) \o t

\* ------------------------------------------------------------- inputs
\* n consecutive token ids starting at first
Tokens(first, n) == [j \in 1..n |-> first + j - 1]

RECURSIVE SumSeq(_)
SumSeq(s) == IF s = <<>> THEN 0 ELSE Head(s) + SumSeq(Tail(s))

\* Sequences of turn lengths whose size (1 + length per turn) is at most b.
RECURSIVE TurnLens(_)
TurnLens(b) ==
    {<<>>} \cup
    UNION { { <<l>> \o rest : rest \in TurnLens(b - 1 - l) } : l \in 0..(b - 1) }

\* The example with d diff tokens, m message tokens and history turns of the
\* given lengths.  The history and message tokens are numbered consecutively
\* from 2, oldest turn first, so every token of an example is distinct and
\* differs from the special ids; diff tokens are numbered from 50.
ExampleOf(d, m, lens) ==
    [ diff_input_ids    |-> Tokens(50, d),
      msg_input_ids     |-> Tokens(2 + SumSeq(lens), m),
      history_input_ids |->
          [t \in 1..Len(lens) |-> Tokens(2 + SumSeq(SubSeq(lens, 1, t - 1)), lens[t])] ]

ExampleSize(e) ==
    1 + Len(e.diff_input_ids) + Len(e.msg_input_ids)
      + Len(e.history_input_ids)
      + SumSeq([t \in 1..Len(e.history_input_ids) |-> Len(e.history_input_ids[t])])

\* Examples of size at most b
ExamplesUpTo(b) ==
    UNION { UNION { { ExampleOf(d, m, lens) : lens \in TurnLens(b - 1 - d - m) }
                    : m \in 0..(b - 1 - d) }
            : d \in 0..(b - 1) }

\* Lists of examples of total size at most b
RECURSIVE BatchesUpTo(_)
BatchesUpTo(b) ==
    {<<>>} \cup
    UNION { { <<e>> \o rest : rest \in BatchesUpTo(b - ExampleSize(e)) }
            : e \in ExamplesUpTo(b) }

\* Scenario A of the specification: current [5,6,7], history [[2,3],[4]],
\* separator [100], max_len 10.
ScenarioA == ExampleOf(0, 3, <<2, 1>>)
\* A second row for scenario C: a message of 5 tokens and no history.
ScenarioC2 == ExampleOf(0, 5, <<>>)
\* Scenario B of the specification: scenario A with a current utterance of
\* 11 tokens, [5,...,15].
ScenarioB == ExampleOf(0, 11, <<2, 1>>)

ExampleLists ==
    BatchesUpTo(MaxSize)
        \cup { <<ScenarioA>>, <<ScenarioA, ScenarioC2>>, <<ScenarioB>> }

\* max_len of the collator: -1 .. MaxMaxLen, and the 10 of scenario A
MaxLens == ((0 - 1)..MaxMaxLen) \cup {10}

Collators == {"WHistoryGen", "WithHistory", "WithoutHistory"}

\* -------------------------------------------------------------- state
VARIABLES
    collator,              \* which collator class this object is
    max_len,               \* self.max_len
    testing,               \* self.testing (data_collators.py only)
    examples,              \* the argument of __call__
    pc,                    \* position in __call__
    idx,                   \* position of the zip(message_inputs, history_inputs) loop
    hpos,                  \* position of the history_ids[::-1] loop
    cur_ids, cur_labels, cur_generation_ids, cur_len,
    all_msg_ids, all_msg_masks, all_msg_labels,
    all_generation_ids, all_generation_masks,
    batch                  \* the returned dict

vars == << collator, max_len, testing, examples, pc, idx, hpos,
           cur_ids, cur_labels, cur_generation_ids, cur_len,
           all_msg_ids, all_msg_masks, all_msg_labels,
           all_generation_ids, all_generation_masks, batch >>

config == << collator, max_len, testing >>
locals == << cur_ids, cur_labels, cur_generation_ids, cur_len >>
lists  == << all_msg_ids, all_msg_masks, all_msg_labels,
             all_generation_ids, all_generation_masks >>

NoBatch == [none |-> TRUE]

\* bos/eos wrapping collators reserve two slots
Wrapped == collator \in {"WithHistory", "WithoutHistory"}
EmitsGeneration == collator = "WHistoryGen"

Init ==
    /\ collator \in Collators
    /\ max_len \in MaxLens
    /\ testing \in (IF Wrapped THEN BOOLEAN ELSE {FALSE})
    /\ examples = <<>>
    /\ pc = "idle"
    /\ idx = 0
    /\ hpos = 0
    /\ cur_ids = <<>>
    /\ cur_labels = <<>>
    /\ cur_generation_ids = <<>>
    /\ cur_len = 0
    /\ all_msg_ids = <<>>
    /\ all_msg_masks = <<>>
    /\ all_msg_labels = <<>>
    /\ all_generation_ids = <<>>
    /\ all_generation_masks = <<>>
    /\ batch = NoBatch

\* Variant of Call: the accumulators of the collator are not created anew.
CallKeepingLists(exs) ==
    /\ pc = "idle"
    /\ ~testing
    /\ examples' = exs
    /\ idx' = 1
    /\ pc' = "for_examples"
    /\ UNCHANGED << config, hpos, locals, lists, batch >>

\* ------------------------------------------------------------ __call__
\* A call starts on an idle collator that is not in testing mode: the three
\* input lists are read and the accumulators are created empty.
Call(exs) ==
    /\ pc = "idle"
    /\ ~testing
    /\ examples' = exs
    /\ all_msg_ids' = <<>>
    /\ all_msg_masks' = <<>>
    /\ all_msg_labels' = <<>>
    /\ all_generation_ids' = <<>>
    /\ all_generation_masks' = <<>>
    /\ idx' = 1
    /\ pc' = "for_examples"
    /\ UNCHANGED << config, hpos, locals, batch >>

message_ids == examples[idx].msg_input_ids
history_ids == examples[idx].history_input_ids

\* the slice bound of message_ids[: ...]
MessageBudget == IF Wrapped THEN max_len - 2 ELSE max_len

\* Variant of TruncatedMessage: the message gives up room for one separator.
TruncatedMessageForSeparator(ids) == PySliceTo(ids, MessageBudget - Len(Separator))

\* message_ids[:self.max_len] / message_ids[:self.max_len - 2]
TruncatedMessage(ids) == PySliceTo(ids, MessageBudget)

InitialIds(ids) ==
    IF Wrapped THEN << <<bos_token_id>>, TruncatedMessage(ids), <<eos_token_id>> >>
               ELSE << TruncatedMessage(ids) >>

InitialLabels(ids) ==
    IF Wrapped THEN << <<IgnoreIndex>>, TruncatedMessage(ids), <<IgnoreIndex>> >>
               ELSE << TruncatedMessage(ids) >>

\* Variant of InitialLen: cur_len is not started anew for each example.
InitialLenCarried(ids) ==
    cur_len + Len(TruncatedMessage(ids)) + (IF Wrapped THEN 2 ELSE 0)

InitialLen(ids) ==
    IF Wrapped THEN Len(TruncatedMessage(ids)) + 2 ELSE Len(TruncatedMessage(ids))

\* history_input_ids + self.trg_tokenizer(r' \n ').input_ids
TurnWithSeparator(history_input_ids) == history_input_ids \o Separator

\* Variant of TurnLabels: the separator gets no label.
TurnLabelsNoSeparator(history_input_ids) == Fill(Len(history_input_ids), IgnoreIndex)

\* Variant of TurnLabels: the turn is labelled with its own tokens.
TurnLabelsCopy(history_input_ids) == TurnWithSeparator(history_input_ids)

\* [-100 for _ in history_input_ids + self.trg_tokenizer(r' \n ').input_ids]
TurnLabels(history_input_ids) ==
    Fill(Len(TurnWithSeparator(history_input_ids)), IgnoreIndex)

\* Variant of ExceedsMaxLen: a turn that fills the room exactly is left out.
ExceedsMaxLenOrEqual(len, history_input_ids) ==
    len + Len(history_input_ids) + Len(Separator) >= max_len

\* Variant of ExceedsMaxLen: the separator is not counted.
ExceedsMaxLenNoSeparator(len, history_input_ids) ==
    len + Len(history_input_ids) > max_len

\* the condition of the break
ExceedsMaxLen(len, history_input_ids) ==
    len + Len(history_input_ids) + Len(Separator) > max_len

\* cur_ids.insert(0, turn) / cur_ids.insert(1, turn), and the same for
\* cur_labels: before the message, after the bos of a wrapping collator
InsertTurn(list, turn) == ListInsert(list, IF Wrapped THEN 1 ELSE 0, turn)

\* Variant of InsertGenerationTurn: the turn goes before the bos.
InsertGenerationTurnFirst(list, turn) == ListInsert(list, 0, turn)

\* cur_generation_ids.insert(1, turn): after the bos
InsertGenerationTurn(list, turn) == ListInsert(list, 1, turn)

\* Variant of StartExample: the generation prompt starts with the message
\* after the bos.
StartExamplePromptWithMessage ==
    /\ pc = "for_examples"
    /\ collator \in {"WHistoryGen", "WithHistory"}
    /\ idx <= Len(examples)
    /\ cur_ids' = InitialIds(message_ids)
    /\ cur_labels' = InitialLabels(message_ids)
    /\ cur_generation_ids' =
          IF EmitsGeneration THEN << <<bos_token_id>>, TruncatedMessage(message_ids) >>
                             ELSE cur_generation_ids
    /\ cur_len' = InitialLen(message_ids)
    /\ hpos' = 1
    /\ pc' = "for_history"
    /\ UNCHANGED << config, examples, idx, lists, batch >>

\* The body of the loop over the examples up to the loop over the history.
StartExample ==
    /\ pc = "for_examples"
    /\ collator \in {"WHistoryGen", "WithHistory"}
    /\ idx <= Len(examples)
    /\ cur_ids' = InitialIds(message_ids)
    /\ cur_labels' = InitialLabels(message_ids)
    /\ cur_generation_ids' =
          IF EmitsGeneration THEN << <<bos_token_id>> >> ELSE cur_generation_ids
    /\ cur_len' = InitialLen(message_ids)
    /\ hpos' = 1
    /\ pc' = "for_history"
    /\ UNCHANGED << config, examples, idx, lists, batch >>

\* the turn the history loop is at
history_input_ids == Reversed(history_ids)[hpos]

\* Variant of HistoryInsert: the turn is merged whether it fits or not.
HistoryInsertUnguarded ==
    /\ pc = "for_history"
    /\ hpos <= Len(history_ids)
    /\ cur_len' = cur_len + Len(history_input_ids) + Len(Separator)
    /\ cur_ids' = InsertTurn(cur_ids, TurnWithSeparator(history_input_ids))
    /\ cur_generation_ids' =
          IF EmitsGeneration
          THEN InsertGenerationTurn(cur_generation_ids, TurnWithSeparator(history_input_ids))
          ELSE cur_generation_ids
    /\ cur_labels' = InsertTurn(cur_labels, TurnLabels(history_input_ids))
    /\ hpos' = hpos + 1
    /\ UNCHANGED << config, examples, pc, idx, lists, batch >>

\* Variant of HistoryInsert: the separator is appended to the turn of the
\* example itself (history_input_ids += separator).
HistoryInsertInPlace ==
    /\ pc = "for_history"
    /\ hpos <= Len(history_ids)
    /\ ~ExceedsMaxLen(cur_len, history_input_ids)
    /\ cur_len' = cur_len + Len(history_input_ids) + Len(Separator)
    /\ cur_ids' = InsertTurn(cur_ids, TurnWithSeparator(history_input_ids))
    /\ cur_generation_ids' =
          IF EmitsGeneration
          THEN InsertGenerationTurn(cur_generation_ids, TurnWithSeparator(history_input_ids))
          ELSE cur_generation_ids
    /\ cur_labels' = InsertTurn(cur_labels, TurnLabels(history_input_ids))
    /\ hpos' = hpos + 1
    /\ examples' = [examples EXCEPT
          ![idx].history_input_ids[Len(history_ids) + 1 - hpos] =
              TurnWithSeparator(history_input_ids)]
    /\ UNCHANGED << config, pc, idx, lists, batch >>

\* One iteration of the history loop that does not break.
HistoryInsert ==
    /\ pc = "for_history"
    /\ hpos <= Len(history_ids)
    /\ ~ExceedsMaxLen(cur_len, history_input_ids)
    /\ cur_len' = cur_len + Len(history_input_ids) + Len(Separator)
    /\ cur_ids' = InsertTurn(cur_ids, TurnWithSeparator(history_input_ids))
    /\ cur_generation_ids' =
          IF EmitsGeneration
          THEN InsertGenerationTurn(cur_generation_ids, TurnWithSeparator(history_input_ids))
          ELSE cur_generation_ids
    /\ cur_labels' = InsertTurn(cur_labels, TurnLabels(history_input_ids))
    /\ hpos' = hpos + 1
    /\ UNCHANGED << config, examples, pc, idx, lists, batch >>

\* torch.ones_like(t)
OnesLike(t) == Fill(Len(t), 1)

\* After the history loop: flatten, build the masks, append to the lists.
FlattenAndAppend ==
    /\ cur_ids' = Flatten(cur_ids)
    /\ cur_labels' = Flatten(cur_labels)
    /\ cur_generation_ids' =
          IF EmitsGeneration THEN Flatten(cur_generation_ids) ELSE cur_generation_ids
    /\ all_msg_ids' = Append(all_msg_ids, Flatten(cur_ids))
    /\ all_msg_labels' = Append(all_msg_labels, Flatten(cur_labels))
    /\ all_msg_masks' = Append(all_msg_masks, OnesLike(Flatten(cur_ids)))
    /\ all_generation_ids' =
          IF EmitsGeneration
          THEN Append(all_generation_ids, Flatten(cur_generation_ids))
          ELSE all_generation_ids
    /\ all_generation_masks' =
          IF EmitsGeneration
          THEN Append(all_generation_masks, OnesLike(Flatten(cur_generation_ids)))
          ELSE all_generation_masks
    /\ idx' = idx + 1
    /\ pc' = "for_examples"
    /\ UNCHANGED << config, examples, hpos, cur_len, batch >>

\* Variant of HistoryBreak: the turn that does not fit is skipped and the loop
\* goes on to the older turns.
HistorySkip ==
    /\ pc = "for_history"
    /\ hpos <= Len(history_ids)
    /\ ExceedsMaxLen(cur_len, history_input_ids)
    /\ hpos' = hpos + 1
    /\ UNCHANGED << config, examples, pc, idx, locals, lists, batch >>

\* The history loop breaks at a turn that does not fit.
HistoryBreak ==
    /\ pc = "for_history"
    /\ hpos <= Len(history_ids)
    /\ ExceedsMaxLen(cur_len, history_input_ids)
    /\ FlattenAndAppend

\* The history loop has gone through every turn.
HistoryExhausted ==
    /\ pc = "for_history"
    /\ hpos > Len(history_ids)
    /\ FlattenAndAppend

\* The body of the loop over the examples of DataCollatorWithoutHistory.
AssembleWithoutHistory ==
    /\ pc = "for_examples"
    /\ collator = "WithoutHistory"
    /\ idx <= Len(examples)
    /\ cur_ids' = Flatten(InitialIds(message_ids))
    /\ cur_labels' = Flatten(InitialLabels(message_ids))
    /\ all_msg_ids' = Append(all_msg_ids, Flatten(InitialIds(message_ids)))
    /\ all_msg_labels' = Append(all_msg_labels, Flatten(InitialLabels(message_ids)))
    /\ all_msg_masks' = Append(all_msg_masks, OnesLike(Flatten(InitialIds(message_ids))))
    /\ idx' = idx + 1
    /\ UNCHANGED << config, examples, pc, hpos, cur_generation_ids, cur_len,
                    all_generation_ids, all_generation_masks, batch >>

\* ------------------------------------------------------- pad and stack
\* Variant of all_diff_ids: the diffs are collected last example first.
AllDiffIdsReversed ==
    [i \in 1..Len(examples) |-> examples[Len(examples) + 1 - i].diff_input_ids]
\* Variant of all_diff_ids: the diffs are cut to max_len like the messages.
AllDiffIdsTruncated ==
    [i \in 1..Len(examples) |-> PySliceTo(examples[i].diff_input_ids, max_len)]

all_diff_ids == [i \in 1..Len(examples) |-> examples[i].diff_input_ids]
all_diff_masks == [i \in 1..Len(examples) |-> OnesLike(all_diff_ids[i])]

\* max(len(tensor) for tensor in tensors)
MaxLenOf(tensors) == MaxOf({ Len(tensors[i]) : i \in 1..Len(tensors) })

\* Variant of msg_max_len: one maximum for the diff and the message fields.
MsgMaxLenGlobal ==
    Max(MaxLenOf(all_msg_ids),
        MaxOf({ Len(examples[i].diff_input_ids) : i \in 1..Len(examples) }))

gen_max_len == MaxLenOf(all_generation_ids)
msg_max_len == MaxLenOf(all_msg_ids)
diff_max_len == MaxLenOf(all_diff_ids)

\* Variant of PaddedMsgMasks: the mask is padded on the left.
PaddedMsgMasksLeft == [i \in 1..Len(all_msg_masks) |->
                    PadLeft(all_msg_masks[i], msg_max_len, 0)]
\* Variant of PaddedMsgLabels: the labels are padded with the pad id.
PaddedMsgLabelsWithPadId == [i \in 1..Len(all_msg_labels) |->
                    PadRight(all_msg_labels[i], msg_max_len, pad_token_id)]
\* Variant of PaddedGenerationIds: the prompt is padded on the right.
PaddedGenerationIdsRight == [i \in 1..Len(all_generation_ids) |->
                    PadRight(all_generation_ids[i], gen_max_len, pad_token_id)]

PaddedMsgIds == [i \in 1..Len(all_msg_ids) |->
                    PadRight(all_msg_ids[i], msg_max_len, pad_token_id)]
PaddedMsgMasks == [i \in 1..Len(all_msg_masks) |->
                    PadRight(all_msg_masks[i], msg_max_len, 0)]
PaddedMsgLabels == [i \in 1..Len(all_msg_labels) |->
                    PadRight(all_msg_labels[i], msg_max_len, IgnoreIndex)]
PaddedDiffIds == [i \in 1..Len(all_diff_ids) |->
                    PadRight(all_diff_ids[i], diff_max_len, src_pad_token_id)]
PaddedDiffMasks == [i \in 1..Len(all_diff_masks) |->
                    PadRight(all_diff_masks[i], diff_max_len, 0)]
PaddedGenerationIds == [i \in 1..Len(all_generation_ids) |->
                    PadLeft(all_generation_ids[i], gen_max_len, pad_token_id)]
PaddedGenerationMasks == [i \in 1..Len(all_generation_masks) |->
                    PadLeft(all_generation_masks[i], gen_max_len, 0)]

ReturnedBatch ==
    IF EmitsGeneration
    THEN [ diff_input_ids            |-> PaddedDiffIds,
           diff_attention_mask       |-> PaddedDiffMasks,
           msg_input_ids             |-> PaddedMsgIds,
           msg_attention_mask        |-> PaddedMsgMasks,
           msg_labels                |-> PaddedMsgLabels,
           generation_input_ids      |-> PaddedGenerationIds,
           generation_attention_mask |-> PaddedGenerationMasks ]
    ELSE [ diff_input_ids            |-> PaddedDiffIds,
           diff_attention_mask       |-> PaddedDiffMasks,
           msg_input_ids             |-> PaddedMsgIds,
           msg_attention_mask        |-> PaddedMsgMasks,
           msg_labels                |-> PaddedMsgLabels ]

\* After the loop over the examples: the maxima, the padding (every slot of
\* the lists all_* is overwritten by its padded tensor), the stacking (each
\* name is bound to the tensor of its rows) and the return.
PadAndStack ==
    /\ pc = "for_examples"
    /\ idx > Len(examples)
    /\ Len(examples) > 0
    /\ all_msg_ids' = PaddedMsgIds
    /\ all_msg_masks' = PaddedMsgMasks
    /\ all_msg_labels' = PaddedMsgLabels
    /\ all_generation_ids' =
          IF EmitsGeneration THEN PaddedGenerationIds ELSE all_generation_ids
    /\ all_generation_masks' =
          IF EmitsGeneration THEN PaddedGenerationMasks ELSE all_generation_masks
    /\ batch' = ReturnedBatch
    /\ pc' = "done"
    /\ UNCHANGED << config, examples, idx, hpos, locals >>

\* ------------------------------------------------------- testing mode
\* the width of the diff tensors of the testing mode
TestingDiffLen == 500
\* the bound of torch.randint(10, ...)
RandIntHigh == 10
\* the size bound of the lists of examples given to a collator in testing mode
MaxSizeTesting == 2

ExampleListsTesting == BatchesUpTo(MaxSizeTesting)

\* the values one entry of torch.randint(10, ...) can take
RandIntValues == 0..(RandIntHigh - 1)

\* torch.randint(10, (n, w)): every entry is drawn from 0..9 independently of
\* the others.  The tensor of the model has the shape of the drawn tensor and
\* holds at every position the set of the values the entry can take, so it
\* stands for every one of the 10^(n*w) tensors the call can return and for
\* no other.
RandInt(n, w) == [i \in 1..n |-> [j \in 1..w |-> RandIntValues]]

\* the tensor t is one the draw r can give: same shape, every entry among the
\* values of its position
IsDrawnFrom(t, r) ==
    /\ Len(t) = Len(r)
    /\ \A i \in 1..Len(r) :
          /\ Len(t[i]) = Len(r[i])
          /\ \A j \in 1..Len(r[i]) : t[i][j] \in r[i][j]

\* torch.ones(n, w)
Ones(n, w) == [i \in 1..n |-> Fill(w, 1)]

TestingBatch(n) ==
    [ diff_input_ids      |-> RandInt(n, TestingDiffLen),
      diff_attention_mask |-> Ones(n, TestingDiffLen),
      msg_input_ids       |-> RandInt(n, max_len),
      msg_attention_mask  |-> Ones(n, max_len),
      msg_labels          |-> RandInt(n, max_len) ]

\* A call of a collator in testing mode: only len(examples) is read and
\* random tensors are returned; a negative max_len is a negative dimension,
\* which torch refuses.
CallTesting(exs) ==
    /\ pc = "idle"
    /\ testing
    /\ examples' = exs
    /\ IF max_len < 0
       THEN /\ pc' = "error"
            /\ batch' = batch
       ELSE /\ batch' = TestingBatch(Len(exs))
            /\ pc' = "done"
    /\ UNCHANGED << config, idx, hpos, locals, lists >>

\* Variant of EmptyBatchError: an empty list gives a batch of empty arrays.
EmptyBatchReturned ==
    /\ pc = "for_examples"
    /\ idx > Len(examples)
    /\ Len(examples) = 0
    /\ batch' = [ diff_input_ids |-> <<>>, diff_attention_mask |-> <<>>,
                  msg_input_ids |-> <<>>, msg_attention_mask |-> <<>>,
                  msg_labels |-> <<>> ]
    /\ pc' = "done"
    /\ UNCHANGED << config, examples, idx, hpos, locals, lists >>

\* max() of an empty sequence raises ValueError: no batch is returned.
EmptyBatchError ==
    /\ pc = "for_examples"
    /\ idx > Len(examples)
    /\ Len(examples) = 0
    /\ pc' = "error"
    /\ UNCHANGED << config, examples, idx, hpos, locals, lists, batch >>

\* The call is over, its locals are gone; the collator keeps its fields only.
Return ==
    /\ pc \in {"done", "error"}
    /\ pc' = "idle"
    /\ examples' = <<>>
    /\ idx' = 0
    /\ hpos' = 0
    /\ cur_ids' = <<>>
    /\ cur_labels' = <<>>
    /\ cur_generation_ids' = <<>>
    /\ cur_len' = 0
    /\ all_msg_ids' = <<>>
    /\ all_msg_masks' = <<>>
    /\ all_msg_labels' = <<>>
    /\ all_generation_ids' = <<>>
    /\ all_generation_masks' = <<>>
    /\ batch' = NoBatch
    /\ UNCHANGED config

Next ==
    \/ \E exs \in ExampleLists : Call(exs)
    \/ \E exs \in ExampleListsTesting : CallTesting(exs)
    \/ StartExample
    \/ HistoryInsert
    \/ HistoryBreak
    \/ HistoryExhausted
    \/ AssembleWithoutHistory
    \/ PadAndStack
    \/ EmptyBatchError
    \/ Return

Spec == Init /\ [][Next]_vars

\* ------------------------------------------------- the same call again
\* (of a collator that is not in testing mode)
\* the size bound of the lists of examples that are collated twice
MaxSizeTwice == 5

ExampleListsTwice ==
    BatchesUpTo(MaxSizeTwice) \cup { <<ScenarioA, ScenarioC2>> }

\* The first call of a collator.
FirstCall(exs) ==
    /\ batch = NoBatch
    /\ Call(exs)

\* The caller keeps the list of examples and the batch it got; whatever the
\* call left behind stays where it was.
ReturnKeeping ==
    /\ pc = "done"
    /\ pc' = "idle"
    /\ UNCHANGED << config, examples, idx, hpos, locals, lists, batch >>

\* The collator is called again with the list of examples of the call before,
\* while the caller still holds the batch of that call.
CallAgain ==
    /\ batch # NoBatch
    /\ Call(examples)

NextTwice ==
    \/ \E exs \in ExampleListsTwice : FirstCall(exs)
    \/ CallAgain
    \/ StartExample
    \/ HistoryInsert
    \/ HistoryBreak
    \/ HistoryExhausted
    \/ AssembleWithoutHistory
    \/ PadAndStack
    \/ EmptyBatchError
    \/ ReturnKeeping
    \/ Return

SpecTwice == Init /\ [][NextTwice]_vars

TypeOK ==
    /\ collator \in Collators
    /\ max_len \in MaxLens
    /\ testing \in BOOLEAN
    /\ pc \in {"idle", "for_examples", "for_history", "done", "error"}

\* ------------------------------------- one example without the others
\* (in a collator that is not in testing mode)
\* an example with no diff, no message and no history
EmptyExample == ExampleOf(0, 0, <<>>)

\* the list that has example i of the list exs at position i, empty examples
\* before it and nothing after it
Alone(exs, i) == [j \in 1..i |-> IF j < i THEN EmptyExample ELSE exs[i]]

\* The collator is called again with one of the examples of the call before
\* at its position and none of the others, while the caller still holds the
\* batch of that call.
CallAlone(i) ==
    /\ batch # NoBatch
    /\ Call(Alone(examples, i))

NextAlone ==
    \/ \E exs \in ExampleListsTwice : FirstCall(exs)
    \/ \E i \in 1..Len(examples) : CallAlone(i)
    \/ StartExample
    \/ HistoryInsert
    \/ HistoryBreak
    \/ HistoryExhausted
    \/ AssembleWithoutHistory
    \/ PadAndStack
    \/ EmptyBatchError
    \/ ReturnKeeping
    \/ Return

SpecAlone == Init /\ [][NextAlone]_vars

\* ============================================================== claims
Range(s) == { s[j] : j \in 1..Len(s) }

\* the rows assembled so far, which are not padded yet, and the rows of the
\* returned batch
Assembled ==
    IF pc \in {"for_examples", "for_history"} THEN 1..Len(all_msg_ids) ELSE {}
\* every example is assembled and nothing is padded yet
Ready == pc = "for_examples" /\ idx > Len(examples) /\ Len(examples) > 0
Rows == 1..Len(examples)

CurrentTokens(i) == examples[i].msg_input_ids
HistoryTokens(i) == examples[i].history_input_ids

\* the two slots a wrapping collator adds around the message
WrapLen == IF Wrapped THEN 2 ELSE 0

\* EncoderDecoderModule.actual_generation_step: the targets with every
\* position whose label is -100 overwritten by the pad id
TargetsNoHistory(b) ==
    [i \in 1..Len(b.msg_input_ids) |->
        [j \in 1..Len(b.msg_input_ids[i]) |->
            IF b.msg_labels[i][j] = IgnoreIndex THEN pad_token_id
                                                ELSE b.msg_input_ids[i][j]]]

\* EncoderDecoderModule.generate: max_length=batch['msg_input_ids'].shape[1]
max_length(b) == Len(b.msg_input_ids[1])
\* EncoderDecoderModule.actual_generation_step:
\* gen_input_len = batch['generation_input_ids'].shape[1]
gen_input_len(b) == Len(b.generation_input_ids[1])

IsRealLabel(x) == x # IgnoreIndex
IsOne(x) == x = 1

\* the number of positions of row i of the batch b that its mask keeps
RealLen(b, i) == Len(SelectSeq(b.msg_attention_mask[i], IsOne))
IsNotPad(x) == x # pad_token_id

\* ------------------------------------------------------------------ C1
\* C1: for every max_len > 0 and every collator, each unpadded training row
\* (bos/eos included) has at most max_len tokens.
ClaimC1 ==
    max_len > 0 => \A i \in Assembled : Len(all_msg_ids[i]) <= max_len

\* ------------------------------------------------------------------ C2
\* C2: the training ids and the labels of an example have the same length
\* before padding (while the history is merged and once assembled), and the
\* padded msg_input_ids and msg_labels rows have the same length.
TheoremC2 ==
    /\ \A i \in Assembled : Len(all_msg_ids[i]) = Len(all_msg_labels[i])
    /\ pc = "for_history" => Len(Flatten(cur_ids)) = Len(Flatten(cur_labels))
    /\ pc = "done" =>
          \A i \in Rows : Len(batch.msg_input_ids[i]) = Len(batch.msg_labels[i])

\* a returned batch in which a row holds a history turn and a row is padded
WitnessC2 ==
    /\ pc = "done" /\ ~testing
    /\ \E i \in Rows :
          RealLen(batch, i) > Len(CurrentTokens(i)) + WrapLen
    /\ \E i \in Rows : RealLen(batch, i) < Len(batch.msg_input_ids[i])

\* ------------------------------------------------------------------ C3
\* C3: in every row of the batch returned by a collator that is not in
\* testing mode the label equals the id at exactly the positions that hold a
\* token of the current utterance and is -100 at every other position
\* (history, separators, bos/eos, right padding).
TheoremC3 ==
    (pc = "done" /\ ~testing) =>
        \A i \in Rows :
            /\ DOMAIN batch.msg_labels[i] = DOMAIN batch.msg_input_ids[i]
            /\ \A j \in DOMAIN batch.msg_input_ids[i] :
                  batch.msg_labels[i][j] =
                      IF batch.msg_input_ids[i][j] \in Range(CurrentTokens(i))
                      THEN batch.msg_input_ids[i][j]
                      ELSE IgnoreIndex

\* a returned batch with a label -100 on a history token, a label -100 on a
\* padding position and a real label
WitnessC3 ==
    /\ pc = "done" /\ ~testing
    /\ \E i \in Rows : \E j \in DOMAIN batch.msg_labels[i] : \E t \in DOMAIN HistoryTokens(i) :
          /\ batch.msg_input_ids[i][j] \in Range(HistoryTokens(i)[t])
          /\ batch.msg_labels[i][j] = IgnoreIndex
    /\ \E i \in Rows : \E j \in DOMAIN batch.msg_labels[i] :
          /\ batch.msg_attention_mask[i][j] = 0
          /\ batch.msg_labels[i][j] = IgnoreIndex
    /\ \E i \in Rows : \E j \in DOMAIN batch.msg_labels[i] :
          batch.msg_labels[i][j] = batch.msg_input_ids[i][j]

\* ------------------------------------------------------------------ C4
\* C4: in the batch of the collator with the generation prompt, the labels of
\* row i that differ from -100, read left to right, are exactly
\* current_tokens[:max_len]; and so are the tokens left in msg_input_ids once
\* the positions with label -100 are overwritten by the pad id.
TheoremC4 ==
    (pc = "done" /\ collator = "WHistoryGen") =>
        \A i \in Rows :
            /\ SelectSeq(batch.msg_labels[i], IsRealLabel)
                  = PySliceTo(CurrentTokens(i), max_len)
            /\ SelectSeq(TargetsNoHistory(batch)[i], IsNotPad)
                  = PySliceTo(CurrentTokens(i), max_len)

\* a returned batch with a truncated message, a merged history and padding
WitnessC4 ==
    /\ pc = "done" /\ collator = "WHistoryGen"
    /\ \E i \in Rows :
          /\ Len(CurrentTokens(i)) > max_len
          /\ SelectSeq(batch.msg_labels[i], IsRealLabel) # <<>>
    /\ \E i \in Rows :
          /\ RealLen(batch, i) > Len(CurrentTokens(i))
          /\ RealLen(batch, i) < Len(batch.msg_input_ids[i])

\* ------------------------------------------------------------------ C5
\* the turns merged so far, as the sublists of cur_ids before the message
MergedTurns ==
    IF Wrapped THEN SubSeq(cur_ids, 2, Len(cur_ids) - 2)
               ELSE SubSeq(cur_ids, 1, Len(cur_ids) - 1)

\* turn t of example i has a token in the assembled row i
TurnShows(i, t) == Range(HistoryTokens(i)[t]) \cap Range(all_msg_ids[i]) # {}
\* every token of turn t of example i is in the assembled row i
TurnIsIn(i, t) == Range(HistoryTokens(i)[t]) \subseteq Range(all_msg_ids[i])

\* C5: the merged turns are always the k most recent turns of the history,
\* 0 <= k <= len(history): the sublists merged so far are those turns, and in
\* an assembled row a turn is present only if every more recent turn is.
TheoremC5 ==
    /\ pc = "for_history" =>
          LET k == Len(MergedTurns)
              n == Len(history_ids)
          IN  /\ k <= n
              /\ \A j \in 1..k :
                    MergedTurns[j] = history_ids[n - k + j] \o Separator
    /\ collator \in {"WHistoryGen", "WithHistory"} =>
          \A i \in Assembled :
              \A t \in DOMAIN HistoryTokens(i) :
                  TurnShows(i, t) =>
                      \A u \in DOMAIN HistoryTokens(i) : u > t => TurnIsIn(i, u)

\* the length of row i when no turn is merged
BaseLen(i) ==
    Len(PySliceTo(CurrentTokens(i), max_len - WrapLen)) + WrapLen

\* an assembled row without history although the turn before the most recent
\* one would fit by itself: the most recent turn did not fit
WitnessC5 ==
    /\ collator \in {"WHistoryGen", "WithHistory"}
    /\ \E i \in Assembled :
          LET h == HistoryTokens(i)
              n == Len(h)
          IN  /\ n >= 2
              /\ BaseLen(i) + Len(h[n]) + Len(Separator) > max_len
              /\ BaseLen(i) + Len(h[n - 1]) + Len(Separator) <= max_len
              /\ Len(h[n - 1]) > 0
              /\ Len(all_msg_ids[i]) = BaseLen(i)

\* ------------------------------------------------------------------ C6
\* turn + separator, turn + separator, ... for the given turns in order
RECURSIVE JoinTurns(_)
JoinTurns(turns) ==
    IF turns = <<>> THEN <<>>
    ELSE Head(turns) \o Separator \o JoinTurns(Tail(turns))

\* the k most recent turns of a history, oldest first
LastTurns(h, k) == SubSeq(h, Len(h) - k + 1, Len(h))

\* C6: in the collator without bos/eos, every unpadded training row is the
\* merged turns, oldest first, each followed by one separator, followed by the
\* truncated current utterance, and the label row is -100 on the turns and
\* separators and the truncated utterance after them; scenario A gives ids
\* [2,3,100,4,100,5,6,7] and labels [-100,-100,-100,-100,-100,5,6,7].
TheoremC6 ==
    collator = "WHistoryGen" =>
        /\ \A i \in Assembled :
              \E k \in 0..Len(HistoryTokens(i)) :
                  LET prefix == JoinTurns(LastTurns(HistoryTokens(i), k))
                      current == PySliceTo(CurrentTokens(i), max_len)
                  IN  /\ all_msg_ids[i] = prefix \o current
                      /\ all_msg_labels[i] = Fill(Len(prefix), IgnoreIndex) \o current
        /\ (pc = "done" /\ max_len = 10 /\ examples = <<ScenarioA>>) =>
              /\ batch.msg_input_ids = << <<2, 3, 100, 4, 100, 5, 6, 7>> >>
              /\ batch.msg_labels = << <<-100, -100, -100, -100, -100, 5, 6, 7>> >>

\* scenario A has been collated: max_len 10, current [5,6,7], history
\* [[2,3],[4]], and both turns are in the row
WitnessC6 ==
    /\ pc = "done" /\ collator = "WHistoryGen" /\ max_len = 10
    /\ Len(examples) = 1
    /\ examples[1].msg_input_ids = <<5, 6, 7>>
    /\ examples[1].history_input_ids = << <<2, 3>>, <<4>> >>
    /\ Separator = <<100>>
    /\ Len(batch.msg_input_ids[1]) = 8

\* ------------------------------------------------------------------ C7
\* C7: every unpadded generation prompt is [bos] followed by the part of the
\* same example's training row that precedes the current utterance; it holds
\* no token of the current utterance, and it is [bos] alone when no turn is
\* merged.
TheoremC7 ==
    collator = "WHistoryGen" =>
        \A i \in Assembled :
            LET row == all_msg_ids[i]
                p == Len(row) - Len(PySliceTo(CurrentTokens(i), max_len))
            IN  /\ all_generation_ids[i] = <<bos_token_id>> \o SubSeq(row, 1, p)
                /\ Range(all_generation_ids[i]) \cap Range(CurrentTokens(i)) = {}
                /\ (HistoryTokens(i) = <<>> \/ p = 0) =>
                      all_generation_ids[i] = <<bos_token_id>>

\* a prompt with two merged turns, the older one not empty, before a
\* non-empty message
WitnessC7 ==
    /\ collator = "WHistoryGen"
    /\ \E i \in Assembled :
          /\ Len(HistoryTokens(i)) = 2
          /\ Len(CurrentTokens(i)) > 0
          /\ Len(HistoryTokens(i)[1]) > 0
          /\ Len(all_generation_ids[i]) = 1 + Len(JoinTurns(HistoryTokens(i)))

\* ------------------------------------------------------------------ C8
\* the last q elements of s
LastOf(s, q) == SubSeq(s, Len(s) - q + 1, Len(s))

\* C8: for max_len > 0, in the collator without bos/eos, the training row ends
\* with the first min(len(current_tokens), max_len) tokens of current_tokens,
\* while the history is merged and once assembled, whatever the history.
TheoremC8 ==
    (collator = "WHistoryGen" /\ max_len > 0) =>
        /\ \A i \in Assembled :
              LET q == Min(Len(CurrentTokens(i)), max_len)
              IN  /\ Len(all_msg_ids[i]) >= q
                  /\ LastOf(all_msg_ids[i], q) = SubSeq(CurrentTokens(i), 1, q)
        /\ pc = "for_history" =>
              LET q == Min(Len(message_ids), max_len)
              IN  /\ Len(Flatten(cur_ids)) >= q
                  /\ LastOf(Flatten(cur_ids), q) = SubSeq(message_ids, 1, q)

\* an assembled row whose message is kept whole although a turn of the history
\* had to be left out for it
WitnessC8 ==
    /\ collator = "WHistoryGen" /\ max_len > 0
    /\ \E i \in Assembled :
          /\ HistoryTokens(i) # <<>>
          /\ Len(CurrentTokens(i)) >= 2
          /\ Len(CurrentTokens(i)) <= max_len
          /\ Len(all_msg_ids[i]) <
                Len(CurrentTokens(i)) + Len(JoinTurns(HistoryTokens(i)))
          /\ LastOf(all_msg_ids[i], Len(CurrentTokens(i))) = CurrentTokens(i)

\* ------------------------------------------------------------------ C9
\* C9: when the batch is padded and returned, row i of msg_attention_mask is
\* L_i ones followed by zeros only, L_i the length of the training row before
\* the padding, its sum is L_i, and msg_input_ids holds the pad id wherever
\* the mask is zero.
TheoremC9 ==
    [][(Ready /\ pc' = "done") =>
        \A i \in Rows :
            LET L == Len(all_msg_ids[i])
                W == Len(batch'.msg_input_ids[i])
                mask == batch'.msg_attention_mask[i]
            IN  /\ Len(mask) = W
                /\ L <= W
                /\ \A j \in 1..W :
                      /\ mask[j] = IF j <= L THEN 1 ELSE 0
                      /\ mask[j] = 0 => batch'.msg_input_ids[i][j] = pad_token_id
                /\ SumSeq(mask) = L]_vars

\* a returned batch with a non-empty training row that is padded
WitnessC9 ==
    /\ pc = "done" /\ ~testing
    /\ \E i \in Rows :
          /\ RealLen(batch, i) > 0
          /\ RealLen(batch, i) < Len(batch.msg_attention_mask[i])
          /\ batch.msg_attention_mask[i][Len(batch.msg_attention_mask[i])] = 0

\* ----------------------------------------------------------------- C10
\* C10: when the batch is padded and returned, row i of
\* generation_attention_mask is W - G_i zeros followed by G_i ones, W the
\* width of the field and G_i the length of the prompt before the padding;
\* generation_input_ids holds the pad id wherever the mask is zero, and the
\* last column of every row is the last token of the prompt, with mask 1.
TheoremC10 ==
    [][(Ready /\ pc' = "done" /\ collator = "WHistoryGen") =>
        \A i \in Rows :
            LET G == Len(all_generation_ids[i])
                W == Len(batch'.generation_input_ids[i])
                mask == batch'.generation_attention_mask[i]
            IN  /\ Len(mask) = W
                /\ 1 <= G /\ G <= W
                /\ \A j \in 1..W :
                      /\ mask[j] = IF j <= W - G THEN 0 ELSE 1
                      /\ mask[j] = 0 => batch'.generation_input_ids[i][j] = pad_token_id
                /\ mask[W] = 1
                /\ batch'.generation_input_ids[i][W] = all_generation_ids[i][G]]_vars

\* a returned batch with a left-padded prompt next to a prompt of full width
WitnessC10 ==
    /\ pc = "done" /\ collator = "WHistoryGen"
    /\ \E i, k \in Rows :
          /\ batch.generation_attention_mask[i][1] = 0
          /\ batch.generation_input_ids[i][1] = pad_token_id
          /\ batch.generation_attention_mask[k][1] = 1
          /\ Len(batch.generation_input_ids[k]) > 1

\* ----------------------------------------------------------------- C11
\* w is the largest number of S
IsMaxOf(w, S) == w \in S /\ \A x \in S : x <= w

\* every row of the field has width w
HasWidth(field, w) == \A i \in DOMAIN field : Len(field[i]) = w

\* C11: when the batch is padded and returned, the width of diff_* is the
\* largest diff length of the batch, the width of msg_* the largest training
\* length before the padding and the width of generation_* the largest prompt
\* length before the padding, so in each field a row is without padding;
\* training rows of lengths 8 and 5 (scenario C) give width 8 and the second
\* mask row [1,1,1,1,1,0,0,0].
TheoremC11 ==
    [][(Ready /\ pc' = "done") =>
        LET dw == Len(batch'.diff_input_ids[1])
            mw == Len(batch'.msg_input_ids[1])
        IN  /\ IsMaxOf(dw, { Len(examples[i].diff_input_ids) : i \in Rows })
            /\ HasWidth(batch'.diff_input_ids, dw)
            /\ HasWidth(batch'.diff_attention_mask, dw)
            /\ IsMaxOf(mw, { Len(all_msg_ids[i]) : i \in Rows })
            /\ HasWidth(batch'.msg_input_ids, mw)
            /\ HasWidth(batch'.msg_attention_mask, mw)
            /\ HasWidth(batch'.msg_labels, mw)
            /\ \E i \in Rows : batch'.diff_attention_mask[i] = Fill(dw, 1)
            /\ \E i \in Rows : batch'.msg_attention_mask[i] = Fill(mw, 1)
            /\ collator = "WHistoryGen" =>
                  LET gw == Len(batch'.generation_input_ids[1])
                  IN  /\ IsMaxOf(gw, { Len(all_generation_ids[i]) : i \in Rows })
                      /\ HasWidth(batch'.generation_input_ids, gw)
                      /\ HasWidth(batch'.generation_attention_mask, gw)
                      /\ \E i \in Rows : batch'.generation_attention_mask[i] = Fill(gw, 1)
            /\ (collator = "WHistoryGen" /\ max_len = 10
                  /\ examples = <<ScenarioA, ScenarioC2>>) =>
                  /\ mw = 8
                  /\ batch'.msg_attention_mask[2] = <<1, 1, 1, 1, 1, 0, 0, 0>>
                  /\ SubSeq(batch'.msg_input_ids[2], 6, 8)
                        = <<pad_token_id, pad_token_id, pad_token_id>>]_vars

\* scenario C has been collated (training rows of lengths 8 and 5), and the
\* three fields have three different widths
WitnessC11 ==
    /\ pc = "done" /\ collator = "WHistoryGen" /\ max_len = 10
    /\ Len(examples) = 2
    /\ RealLen(batch, 1) = 8 /\ RealLen(batch, 2) = 5
    /\ Len(batch.msg_input_ids[2]) = 8
    /\ Len(batch.generation_input_ids[2]) = 6
    /\ Len(batch.diff_input_ids[2]) = 0

\* ----------------------------------------------------------------- C12
\* the fields of the returned batch
BatchFields ==
    IF collator = "WHistoryGen"
    THEN << batch.diff_input_ids, batch.diff_attention_mask,
            batch.msg_input_ids, batch.msg_attention_mask, batch.msg_labels,
            batch.generation_input_ids, batch.generation_attention_mask >>
    ELSE << batch.diff_input_ids, batch.diff_attention_mask,
            batch.msg_input_ids, batch.msg_attention_mask, batch.msg_labels >>

\* the first n elements of s
FirstOf(s, n) == SubSeq(s, 1, n)

\* C12: every array of the batch returned by a collator that is not in
\* testing mode has one row per example, and row i
\* comes from example i: the diff row starts with its diff, the training row
\* is made of k of its most recent turns and its message, the labels keep its
\* message, and the prompt row ends with the same k turns.
TheoremC12 ==
    (pc = "done" /\ ~testing) =>
        /\ \A f \in DOMAIN BatchFields : Len(BatchFields[f]) = Len(examples)
        /\ \A i \in Rows :
              LET e == examples[i]
                  current == PySliceTo(e.msg_input_ids, max_len - WrapLen)
                  h == IF collator = "WithoutHistory" THEN <<>> ELSE e.history_input_ids
              IN  /\ FirstOf(batch.diff_input_ids[i], Len(e.diff_input_ids))
                        = e.diff_input_ids
                  /\ SumSeq(batch.diff_attention_mask[i]) = Len(e.diff_input_ids)
                  /\ SelectSeq(batch.msg_labels[i], IsRealLabel) = current
                  /\ \E k \in 0..Len(h) :
                        LET prefix == JoinTurns(LastTurns(h, k))
                            row == (IF Wrapped THEN <<bos_token_id>> ELSE <<>>)
                                   \o prefix \o current
                                   \o (IF Wrapped THEN <<eos_token_id>> ELSE <<>>)
                        IN  /\ FirstOf(batch.msg_input_ids[i], Len(row)) = row
                            /\ SumSeq(batch.msg_attention_mask[i]) = Len(row)
                            /\ collator = "WHistoryGen" =>
                                  /\ LastOf(batch.generation_input_ids[i], Len(prefix) + 1)
                                        = <<bos_token_id>> \o prefix
                                  /\ SumSeq(batch.generation_attention_mask[i])
                                        = Len(prefix) + 1

\* a returned batch of two examples that differ in their diff, their message
\* and their history, seven arrays of two rows
WitnessC12 ==
    /\ pc = "done" /\ collator = "WHistoryGen"
    /\ Len(examples) = 2
    /\ Len(batch.generation_attention_mask) = 2
    /\ examples[1].diff_input_ids # examples[2].diff_input_ids
    /\ examples[1].msg_input_ids # examples[2].msg_input_ids
    /\ examples[1].history_input_ids # examples[2].history_input_ids
    /\ batch.msg_input_ids[1] # batch.msg_input_ids[2]
    /\ batch.generation_input_ids[1] # batch.generation_input_ids[2]

\* ----------------------------------------------------------------- C13
\* C13: when the collator is not in testing mode, row i of diff_input_ids is
\* the whole diff of example i, however long,
\* followed only by the source tokenizer's pad id, and row i of
\* diff_attention_mask is 1 on the diff and 0 on the padding.
TheoremC13 ==
    (pc = "done" /\ ~testing) =>
        \A i \in Rows :
            LET diff == examples[i].diff_input_ids
                W == Len(batch.diff_input_ids[i])
            IN  /\ W >= Len(diff)
                /\ batch.diff_input_ids[i] = diff \o Fill(W - Len(diff), src_pad_token_id)
                /\ batch.diff_attention_mask[i] = Fill(Len(diff), 1) \o Fill(W - Len(diff), 0)

\* a returned batch with a diff longer than max_len, kept whole, next to a
\* shorter diff that is padded, in a collator that merges history
WitnessC13 ==
    /\ pc = "done" /\ ~testing /\ max_len > 0
    /\ collator \in {"WHistoryGen", "WithHistory"}
    /\ \E i, k \in Rows :
          /\ Len(examples[i].diff_input_ids) > max_len
          /\ Len(batch.diff_input_ids[i]) = Len(examples[i].diff_input_ids)
          /\ Len(examples[k].diff_input_ids) < Len(batch.diff_input_ids[k])
          /\ batch.diff_attention_mask[k][Len(batch.diff_attention_mask[k])] = 0

\* ----------------------------------------------------------------- C14
\* the first n tokens of s, none when n is not positive
FirstTokens(s, n) == SubSeq(s, 1, Min(Len(s), Max(n, 0)))

\* row i of the wrapping collators is laid out around the given current part
WrappedLayout(i, current) ==
    LET h == IF collator = "WithoutHistory" THEN <<>> ELSE HistoryTokens(i)
    IN  \E k \in 0..Len(h) :
            LET prefix == JoinTurns(LastTurns(h, k))
            IN  /\ all_msg_ids[i] =
                      <<bos_token_id>> \o prefix \o current \o <<eos_token_id>>
                /\ all_msg_labels[i] =
                      <<IgnoreIndex>> \o Fill(Len(prefix), IgnoreIndex)
                                      \o current \o <<IgnoreIndex>>

\* C14: in the bos/eos-wrapping collators (max_len > 0) every unpadded
\* training row is [bos], the merged turns oldest first each followed by the
\* separator (none without history), the current tokens truncated to
\* max_len - 2 tokens, [eos]; the labels are -100 on bos and eos and on the
\* turns, and the truncated current tokens in between.
ClaimC14 ==
    (Wrapped /\ max_len > 0) =>
        \A i \in Assembled :
            WrappedLayout(i, FirstTokens(CurrentTokens(i), max_len - 2))

\* ----------------------------------------------------------------- C15
\* C15: a call of a collator that is not in testing mode with an empty list
\* of examples ends in an error and never returns a batch.
TheoremC15 ==
    (pc # "idle" /\ examples = <<>> /\ ~testing) =>
        /\ pc \in {"for_examples", "error"}
        /\ batch = NoBatch

\* the call with the empty list has failed
WitnessC15 ==
    /\ pc = "error" /\ ~testing
    /\ examples = <<>>
    /\ batch = NoBatch

\* ----------------------------------------------------------------- C16
\* C16: a collator with max_len <= 0 never returns a batch: the call ends in
\* an error.
ClaimC16 ==
    max_len <= 0 => (pc # "done" /\ batch = NoBatch)

\* ----------------------------------------------------------------- C17
\* C17: when the same list of examples is collated a second time by the same
\* collator, not in testing mode, the batch of the second call is the batch
\* of the first call,
\* field by field, whatever the first call left behind.
TheoremC17 ==
    (pc = "for_examples" /\ idx > Len(examples) /\ batch # NoBatch /\ ~testing) =>
        ReturnedBatch = batch

\* the second call of the collator with the generation prompt has assembled
\* two rows, one with a merged turn, and is about to return
WitnessC17 ==
    /\ pc = "for_examples" /\ idx > Len(examples) /\ batch # NoBatch
    /\ collator = "WHistoryGen"
    /\ Len(examples) = 2
    /\ \E i \in Rows : Len(all_msg_ids[i]) > Len(CurrentTokens(i))
    /\ DOMAIN ReturnedBatch = DOMAIN batch
    /\ ReturnedBatch.generation_input_ids = batch.generation_input_ids

\* ----------------------------------------------------------------- C18
\* C18: no step of a call changes the examples (diff, message, history and
\* every turn of it) or the max_len and the kind of the collator.
TheoremC18 ==
    [][(pc # "idle" /\ pc' # "idle") =>
          (examples' = examples /\ max_len' = max_len /\ collator' = collator)]_vars

\* a batch has been returned with a merged turn and its separator in a row and
\* a truncated message in a row, and no turn of the examples holds a separator
WitnessC18 ==
    /\ pc = "done" /\ max_len > 0 /\ ~testing
    /\ \E i \in Rows : RealLen(batch, i) > Len(CurrentTokens(i)) + WrapLen
    /\ \E i \in Rows : Len(CurrentTokens(i)) > max_len
    /\ \A i \in Rows : \A t \in DOMAIN HistoryTokens(i) :
          Range(HistoryTokens(i)[t]) \cap Range(Separator) = {}

\* ----------------------------------------------------------------- C19
\* the numbers k of most recent turns that fit with the truncated utterance
FittingK(i) ==
    { k \in 0..Len(HistoryTokens(i)) :
        Len(PySliceTo(CurrentTokens(i), max_len))
            + Len(JoinTurns(LastTurns(HistoryTokens(i), k))) <= max_len }

\* C19: in the collator without bos/eos the merged turns are the k most recent
\* ones for the largest k such that len(truncated current) plus the sum over
\* those turns of len(turn) + len(separator) is at most max_len; a turn that
\* fits exactly is merged.
TheoremC19 ==
    collator = "WHistoryGen" =>
        \A i \in Assembled :
            FittingK(i) # {} =>
                all_msg_ids[i] =
                    JoinTurns(LastTurns(HistoryTokens(i), MaxOf(FittingK(i))))
                        \o PySliceTo(CurrentTokens(i), max_len)

\* a row that a merged turn fills exactly to max_len, an older turn left out
WitnessC19 ==
    /\ collator = "WHistoryGen"
    /\ \E i \in Assembled :
          /\ Len(all_msg_ids[i]) = max_len
          /\ Len(all_msg_ids[i]) > Len(CurrentTokens(i))
          /\ MaxOf(FittingK(i)) < Len(HistoryTokens(i))

\* ----------------------------------------------------------------- C20
\* C20: in the collator without bos/eos, for max_len > 0, an example whose
\* current utterance has max_len tokens or more gives a training row that is
\* the first max_len tokens of the utterance, with no turn merged, labels that
\* are all the tokens themselves and the generation prompt [bos]; the call
\* does not fail.
TheoremC20 ==
    (collator = "WHistoryGen" /\ max_len > 0) =>
        /\ \A i \in Assembled :
              Len(CurrentTokens(i)) >= max_len =>
                  /\ all_msg_ids[i] = SubSeq(CurrentTokens(i), 1, max_len)
                  /\ all_msg_labels[i] = SubSeq(CurrentTokens(i), 1, max_len)
                  /\ all_generation_ids[i] = <<bos_token_id>>
        /\ pc = "error" => examples = <<>>
        /\ (pc = "done" /\ max_len = 10 /\ examples = <<ScenarioB>>) =>
              /\ batch.msg_input_ids = << <<5, 6, 7, 8, 9, 10, 11, 12, 13, 14>> >>
              /\ batch.msg_labels = batch.msg_input_ids
              /\ batch.generation_input_ids = << <<bos_token_id>> >>

\* scenario B has been collated: max_len 10, a current utterance of 11
\* tokens, history [[2,3],[4]]
WitnessC20 ==
    /\ pc = "done" /\ collator = "WHistoryGen" /\ max_len = 10
    /\ Len(examples) = 1
    /\ Len(examples[1].msg_input_ids) = 11
    /\ examples[1].history_input_ids = << <<2, 3>>, <<4>> >>
    /\ Len(batch.msg_input_ids[1]) = 10

\* ----------------------------------------------------------------- C21
\* a step of the history loop: an iteration, or the end of the loop
HistoryLoopStep == HistoryInsert \/ HistoryBreak \/ HistoryExhausted

\* C21: the history loop of an example ends: while it runs a step of it can
\* always be taken, every iteration considers the next turn, and at most
\* len(history) turns are considered; cur_len never decreases, and it is never
\* above max_len when it started at or below max_len.
TheoremC21 ==
    /\ [](pc = "for_history" =>
            /\ ENABLED HistoryLoopStep
            /\ hpos <= Len(history_ids) + 1
            /\ InitialLen(message_ids) <= max_len => cur_len <= max_len)
    /\ [][(pc = "for_history" /\ pc' = "for_history") =>
            (hpos' = hpos + 1 /\ cur_len' >= cur_len)]_vars
    /\ [][(pc = "for_history" /\ pc' # "for_history") =>
            (pc' = "for_examples" /\ idx' = idx + 1)]_vars

\* the loop has merged every turn of a history of two turns or more, and
\* cur_len has grown to max_len
WitnessC21 ==
    /\ pc = "for_history"
    /\ Len(history_ids) >= 2
    /\ hpos = Len(history_ids) + 1
    /\ cur_len > InitialLen(message_ids)
    /\ cur_len = max_len

\* ----------------------------------------------------------------- C22
\* the elements of row at the positions where mask is 1, in order
RECURSIVE Unpadded(_, _)
Unpadded(row, mask) ==
    IF row = <<>> THEN <<>>
    ELSE (IF Head(mask) = 1 THEN <<Head(row)>> ELSE <<>>)
             \o Unpadded(Tail(row), Tail(mask))

\* the unpadded content of row i of every field of the batch b
Content(b, i) ==
    << Unpadded(b.diff_input_ids[i], b.diff_attention_mask[i]),
       Unpadded(b.diff_attention_mask[i], b.diff_attention_mask[i]),
       Unpadded(b.msg_input_ids[i], b.msg_attention_mask[i]),
       Unpadded(b.msg_attention_mask[i], b.msg_attention_mask[i]),
       Unpadded(b.msg_labels[i], b.msg_attention_mask[i]),
       IF "generation_input_ids" \in DOMAIN b
       THEN << Unpadded(b.generation_input_ids[i], b.generation_attention_mask[i]),
               Unpadded(b.generation_attention_mask[i], b.generation_attention_mask[i]) >>
       ELSE <<>> >>

\* C22: when the collator is not in testing mode, the unpadded content of
\* row i of every field is the one the same collator gives when example i is
\* at position i of a list without the other examples (so two batches that
\* agree on example i agree on that content, whatever their other examples
\* are).
TheoremC22 ==
    (pc = "for_examples" /\ idx > Len(examples) /\ batch # NoBatch /\ ~testing) =>
        Content(ReturnedBatch, Len(examples)) = Content(batch, Len(examples))

\* the second example of a batch, padded there in the message and in the
\* prompt and with a merged turn, has been assembled again without the first
WitnessC22 ==
    /\ pc = "for_examples" /\ idx > Len(examples) /\ batch # NoBatch
    /\ collator = "WHistoryGen"
    /\ Len(examples) = 2
    /\ Len(all_msg_ids[2]) > Len(CurrentTokens(2))
    /\ Len(batch.msg_input_ids[2]) > Len(ReturnedBatch.msg_input_ids[2])
    /\ Len(batch.generation_input_ids[2]) > Len(ReturnedBatch.generation_input_ids[2])
    /\ Content(ReturnedBatch, 2) = Content(batch, 2)

\* ----------------------------------------------------------------- C23
\* C23: when max_len >= 1 and every example of the batch has a non-empty
\* message, generation_input_ids is at most as wide as msg_input_ids: the
\* max_length given to generate is not below the length of the prompt.
TheoremC23 ==
    (/\ pc = "done" /\ collator = "WHistoryGen" /\ max_len >= 1
     /\ \A i \in Rows : CurrentTokens(i) # <<>>) =>
        /\ \A i \in Rows :
              Len(batch.generation_input_ids[i]) <= Len(batch.msg_input_ids[i])
        /\ gen_input_len(batch) <= max_length(batch)

\* a batch of two examples with non-empty messages, one with a merged turn,
\* in which the prompt is as wide as the training rows
WitnessC23 ==
    /\ pc = "done" /\ collator = "WHistoryGen" /\ max_len >= 1
    /\ Len(examples) = 2
    /\ \A i \in Rows : CurrentTokens(i) # <<>>
    /\ \E i \in Rows : SumSeq(batch.generation_attention_mask[i]) > 1
    /\ gen_input_len(batch) = max_length(batch)

====
